---- MODULE Spec2Model ----
\* Incremental shuffler (torchdata/datapipes/iter/util/incshuffle.py).
\* One or two IncrementalShufflerIterDataPipe instances over one upstream
\* datapipe, and up to two traversals (generators returned by __iter__).
\* A traversal runs only while its consumer is inside next() on it; control
\* returns to the consumers at a yield, at the end, or when an error escapes.
EXTENDS Integers, Sequences, FiniteSets, TLC

\* ---------------------------------------------------------------- bounds
MaxLen == 3          \* longest finite upstream, one traversal
MaxBufferSize == 3   \* largest buffer_size, one traversal
PairLen == 2         \* longest finite upstream, two traversals
PairBufferSize == 2  \* largest buffer_size, two traversals

Values == {1, 2}             \* sample values
Traversals == {1, 2}         \* generators obtained from __iter__
Shufflers == {1, 2}          \* IncrementalShufflerIterDataPipe instances

VARIABLES
    source_datapipe, \* the samples the upstream yields, in order
    errAt,           \* the upstream pull that raises (0: none)
    endless,         \* TRUE: the upstream repeats its samples forever
    initial,         \* self.initial
    buffer_size,     \* self.buffer_size
    traversals,      \* how many traversals the consumers make
    owner,           \* owner[t]: the shuffler instance traversal t iterates
    rng,             \* rng[s]: the draws self.rng of instance s has produced
    running,         \* the traversal holding control (0: the consumers)
    pc,              \* pc[t]: position of traversal t in __iter__
    buf,             \* buf[BufOf(t)]: local list buf
    data,            \* data[t]: successful pulls made on the cursor `data`
    sample,          \* sample[t]: loop variable `sample` (<<>>: unset)
    out,             \* out[t]: samples yielded so far
    raised,          \* raised[t]: the error that ended traversal t
    drawsUsed,       \* drawsUsed[t]: positions in self.rng's stream used by t
    startAt,         \* startAt[t]: draws self.rng had produced when t began
    pullsSince,      \* pullsSince[t]: next(data) calls since t's last yield
    stopsSeen,       \* stopsSeen[t]: StopIteration signals t has received
    source_len,      \* what len(self.source_datapipe) gives
    len_result       \* what the last len() of the shuffler gave

vars == <<source_datapipe, errAt, endless, initial, buffer_size, traversals,
          owner, rng, running, pc, buf, data, sample, out, raised, drawsUsed,
          startAt, pullsSince, stopsSeen, source_len, len_result>>

config == <<source_datapipe, errAt, endless, initial, buffer_size,
            traversals, owner, source_len>>

\* ------------------------------------------------------------- helpers
Min(a, b) == IF a <= b THEN a ELSE b

Max(a, b) == IF a >= b THEN a ELSE b

SeqsUpTo(n) == UNION {[1..k -> Values] : k \in 0..n}

Count(s, v) == Cardinality({i \in DOMAIN s : s[i] = v})

SameBag(s, u) == \A v \in Values : Count(s, v) = Count(u, v)

IsPrefix(s, u) == Len(s) <= Len(u) /\ SubSeq(u, 1, Len(s)) = s

Other(t) == CHOOSE o \in Traversals : o # t

\* --------------------------------------------------- upstream datapipe
\* next(data) on a cursor that has yielded c samples: a sample, the
\* exhaustion signal, or an error of the upstream's own.
SourceNext(c) ==
    IF errAt = c + 1 THEN [kind |-> "raise", val |-> "UpstreamError"]
    ELSE IF endless
         THEN [kind |-> "item",
               val |-> source_datapipe[(c % Len(source_datapipe)) + 1]]
    ELSE IF c < Len(source_datapipe)
         THEN [kind |-> "item", val |-> source_datapipe[c + 1]]
    ELSE [kind |-> "stop", val |-> "StopIteration"]

\* len(self.source_datapipe): a count, or the error of an upstream that
\* defines no length.
Reported(n) == [kind |-> "ok", count |-> n, err |-> "none"]

NoLength == [kind |-> "raise", count |-> 0, err |-> "TypeError"]

NotAsked == [kind |-> "none", count |-> 0, err |-> "none"]

\* An endless upstream is followed until the buffer has filled and two more
\* samples have come.
CanPull(t) == endless => data[t] < buffer_size + 2

\* ------------------------------------------------------------ __init__
\* Variant: the clamp of line 55 forgotten.
EffInitialUnclamped == initial

\* line 55: initial = min(self.initial, self.buffer_size)
EffInitial == Min(initial, buffer_size)

\* Variant: a generator made anew by every traversal.
RngOfTraversal(t) == t

\* Variant: one process-wide generator for every instance.
RngOfGlobal(t) == 1

\* line 50: self.rng is made once, in __init__: traversal t draws from the
\* generator of the instance it iterates.
RngOf(t) == owner[t]

\* Variant: the buffer kept on the instance (self.buf).
BufOfInstance(t) == owner[t]

\* line 56: buf is a local of __iter__: every traversal has a list of its own.
BufOf(t) == t

\* rng.randint(0, n - 1) on instance s: any index of the range, except that
\* a generator built from the same seed as another one repeats that one's
\* result for the same history of requests.
Randint(s, n) ==
    LET p == Len(rng[s]) + 1
        m == CHOOSE x \in Shufflers : x # s
        same == /\ owner[1] # owner[2]
                /\ p <= Len(rng[m])
                /\ \A i \in 1..(p - 1) : rng[s][i].n = rng[m][i].n
                /\ rng[m][p].n = n
    IN IF same THEN {rng[m][p].k} ELSE 0..(n - 1)

\* --------------------------------------------------------------- _pick
\* lines 17-20: sample = buf[k]; buf[k] = buf[-1]; buf.pop(); return sample
PickSample(b, k) == b[k + 1]

\* Variant: del buf[k], which keeps the order of the others.
PickRestShift(b, k) == SubSeq(b, 1, k) \o SubSeq(b, k + 2, Len(b))

\* Variant: buf[k] = buf[-1] without buf.pop().
PickRestNoPop(b, k) == [b EXCEPT ![k + 1] = b[Len(b)]]

\* Variant: buf.pop() without buf[k] = buf[-1].
PickRestNoSwap(b, k) == SubSeq(b, 1, Len(b) - 1)

PickRest(b, k) == SubSeq([b EXCEPT ![k + 1] = b[Len(b)]], 1, Len(b) - 1)

\* Variant: the error caught and another one raised in its place.
PropagateWrapped(e) == "RuntimeError"

\* An error that escapes __iter__ reaches the consumer as raised.
Propagate(e) == e

\* _pick(buf, self.rng) followed by the yield of its result; next is the
\* position the generator is suspended at. randint on an empty range raises.
PickAndYield(t, next) ==
    IF Len(buf[BufOf(t)]) = 0
    THEN /\ pc' = [pc EXCEPT ![t] = "error"]
         /\ raised' = [raised EXCEPT ![t] = Propagate("ValueError")]
         /\ UNCHANGED <<buf, out, rng, drawsUsed>>
    ELSE \E k \in Randint(RngOf(t), Len(buf[BufOf(t)])) :
         /\ rng' = [rng EXCEPT ![RngOf(t)] =
                        Append(@, [n |-> Len(buf[BufOf(t)]), k |-> k])]
         /\ drawsUsed' = [drawsUsed EXCEPT ![t] =
                              Append(@, Len(rng[RngOf(t)]) + 1)]
         /\ out' = [out EXCEPT ![t] = Append(@, PickSample(buf[BufOf(t)], k))]
         /\ buf' = [buf EXCEPT ![BufOf(t)] = PickRest(buf[BufOf(t)], k)]
         /\ pc' = [pc EXCEPT ![t] = next]
         /\ UNCHANGED raised

\* ------------------------------------------------------------ __iter__
\* The consumer's first next(): lines 55-57.
Start(t) ==
    /\ running = 0
    /\ pc[t] = "new"
    /\ t <= traversals
    /\ t = 2 => pc[1] # "new"
    /\ running' = t
    /\ pc' = [pc EXCEPT ![t] = "for"]
    /\ buf' = [buf EXCEPT ![BufOf(t)] = <<>>]
    /\ data' = [data EXCEPT ![t] = 0]
    /\ startAt' = [startAt EXCEPT ![t] = Len(rng[RngOf(t)])]
    /\ UNCHANGED <<config, len_result, rng, sample, out, raised, drawsUsed, pullsSince,
                   stopsSeen>>

\* line 58: for sample in data
ForNext(t) ==
    /\ running = t
    /\ pc[t] = "for"
    /\ CanPull(t)
    /\ LET r == SourceNext(data[t]) IN
       /\ pullsSince' = [pullsSince EXCEPT ![t] = @ + 1]
       /\ CASE r.kind = "item" ->
                 /\ sample' = [sample EXCEPT ![t] = <<r.val>>]
                 /\ data' = [data EXCEPT ![t] = @ + 1]
                 /\ pc' = [pc EXCEPT ![t] = "append"]
                 /\ UNCHANGED <<running, raised, stopsSeen>>
            [] r.kind = "stop" ->
                 /\ stopsSeen' = [stopsSeen EXCEPT ![t] = @ + 1]
                 /\ pc' = [pc EXCEPT ![t] = "drain"]
                 /\ UNCHANGED <<running, raised, sample, data>>
            [] r.kind = "raise" ->
                 /\ raised' = [raised EXCEPT ![t] = Propagate(r.val)]
                 /\ pc' = [pc EXCEPT ![t] = "error"]
                 /\ running' = 0
                 /\ UNCHANGED <<sample, data, stopsSeen>>
    /\ UNCHANGED <<config, len_result, rng, buf, out, drawsUsed, startAt>>

\* line 59: buf.append(sample)
AppendSample(t) ==
    /\ running = t
    /\ pc[t] = "append"
    /\ buf' = [buf EXCEPT ![BufOf(t)] = Append(@, sample[t][1])]
    /\ pc' = [pc EXCEPT ![t] = "topup"]
    /\ UNCHANGED <<config, len_result, rng, running, data, sample, out, raised, drawsUsed,
                   startAt, pullsSince, stopsSeen>>

\* Variant: <= for <.
NeedsTopUpOffByOne(t) == Len(buf[BufOf(t)]) <= buffer_size

\* line 60: the guard of the top-up pull
NeedsTopUp(t) == Len(buf[BufOf(t)]) < buffer_size

\* lines 60-64: the top-up pull, its StopIteration absorbed
TopUp(t) ==
    /\ running = t
    /\ pc[t] = "topup"
    /\ IF NeedsTopUp(t)
       THEN /\ CanPull(t)
            /\ LET r == SourceNext(data[t]) IN
               /\ pullsSince' = [pullsSince EXCEPT ![t] = @ + 1]
               /\ CASE r.kind = "item" ->
                         /\ buf' = [buf EXCEPT ![BufOf(t)] = Append(@, r.val)]
                         /\ data' = [data EXCEPT ![t] = @ + 1]
                         /\ pc' = [pc EXCEPT ![t] = "test"]
                         /\ UNCHANGED <<running, raised, stopsSeen>>
                    [] r.kind = "stop" ->
                         /\ stopsSeen' = [stopsSeen EXCEPT ![t] = @ + 1]
                         /\ pc' = [pc EXCEPT ![t] = "test"]
                         /\ UNCHANGED <<running, raised, buf, data>>
                    [] r.kind = "raise" ->
                         /\ raised' = [raised EXCEPT ![t] = Propagate(r.val)]
                         /\ pc' = [pc EXCEPT ![t] = "error"]
                         /\ running' = 0
                         /\ UNCHANGED <<buf, data, stopsSeen>>
       ELSE /\ pc' = [pc EXCEPT ![t] = "test"]
            /\ UNCHANGED <<running, raised, buf, data, pullsSince, stopsSeen>>
    /\ UNCHANGED <<config, len_result, rng, sample, out, drawsUsed, startAt>>

\* Variant: pick only from a full buffer.
ReadyToPickFull(t) == Len(buf[BufOf(t)]) >= buffer_size

\* Variant: pick as soon as the buffer holds anything.
ReadyToPickAny(t) == Len(buf[BufOf(t)]) >= 1

\* Variant: pick one sample short of the fill level.
ReadyToPickEarly(t) == Len(buf[BufOf(t)]) + 1 >= EffInitial

\* line 65: the guard of the main-loop pick
ReadyToPick(t) == Len(buf[BufOf(t)]) >= EffInitial

\* lines 65-66: if len(buf) >= initial: yield _pick(buf, self.rng)
LoopPick(t) ==
    /\ running = t
    /\ pc[t] = "test"
    /\ IF ReadyToPick(t)
       THEN /\ PickAndYield(t, "yield_loop")
            /\ running' = 0
       ELSE /\ pc' = [pc EXCEPT ![t] = "for"]
            /\ UNCHANGED <<running, buf, out, rng, drawsUsed, raised>>
    /\ UNCHANGED <<config, len_result, data, sample, startAt, pullsSince, stopsSeen>>

\* Variant: > 1 for > 0.
DrainMoreLeavesOne(t) == Len(buf[BufOf(t)]) > 1

\* variant: a drain loop that also runs on an empty buffer
DrainMoreNonNegative(t) == Len(buf[BufOf(t)]) >= 0

\* line 67: the guard of the drain loop
DrainMore(t) == Len(buf[BufOf(t)]) > 0

\* lines 67-68: while len(buf) > 0: yield _pick(buf, self.rng); else return
Drain(t) ==
    /\ running = t
    /\ pc[t] = "drain"
    /\ IF DrainMore(t)
       THEN PickAndYield(t, "yield_drain")
       ELSE /\ pc' = [pc EXCEPT ![t] = "done"]
            /\ UNCHANGED <<buf, out, rng, drawsUsed, raised>>
    /\ running' = 0
    /\ UNCHANGED <<config, len_result, data, sample, startAt, pullsSince, stopsSeen>>

\* The consumer's next() on a generator suspended at a yield.
Resume(t) ==
    /\ running = 0
    /\ pc[t] \in {"yield_loop", "yield_drain"}
    /\ running' = t
    /\ pc' = [pc EXCEPT ![t] = IF pc[t] = "yield_loop" THEN "for" ELSE "drain"]
    /\ pullsSince' = [pullsSince EXCEPT ![t] = 0]
    /\ UNCHANGED <<config, len_result, rng, buf, data, sample, out, raised, drawsUsed,
                   startAt, stopsSeen>>

\* The consumer stops pulling: the suspended generator is dropped.
Abandon(t) ==
    /\ running = 0
    /\ pc[t] \in {"yield_loop", "yield_drain"}
    /\ pc' = [pc EXCEPT ![t] = "abandoned"]
    /\ UNCHANGED <<config, len_result, rng, running, buf, data, sample, out, raised,
                   drawsUsed, startAt, pullsSince, stopsSeen>>

\* ------------------------------------------------------------- __len__
\* Variant: the shuffler counting what it has emitted.
ShufflerLenCounted == Reported(Len(out[1]))

\* line 71: return len(self.source_datapipe)
ShufflerLen ==
    IF source_len.kind = "raise"
    THEN [source_len EXCEPT !.err = Propagate(@)]
    ELSE source_len

\* lines 70-71: the consumer's len() on the shuffler
LenCall ==
    /\ running = 0
    /\ len_result' = ShufflerLen
    /\ UNCHANGED <<config, rng, running, pc, buf, data, sample, out, raised,
                   drawsUsed, startAt, pullsSince, stopsSeen>>

\* ------------------------------------------------------- specification
\* The state after construction: an upstream out of sources, finite or of
\* one of the kinds in endlessKinds, the pairs <<initial, buffer_size>> of
\* sizes (nothing validates them: zero and negative ones are accepted);
\* owners are the ways the traversals are spread over the shuffler instances.
InitWith(sources, sizes, endlessKinds, travs, owners) ==
    /\ source_datapipe \in sources
    /\ errAt \in 0..Len(source_datapipe)
    /\ endless \in endlessKinds
    /\ endless => (Len(source_datapipe) > 0 /\ errAt = 0)
    /\ \E sz \in sizes : initial = sz[1] /\ buffer_size = sz[2]
    /\ traversals = travs
    /\ owner \in owners
    /\ rng = [s \in Shufflers |-> <<>>]
    /\ running = 0
    /\ pc = [t \in Traversals |-> "new"]
    /\ buf = [t \in Traversals |-> <<>>]
    /\ data = [t \in Traversals |-> 0]
    /\ sample = [t \in Traversals |-> <<>>]
    /\ out = [t \in Traversals |-> <<>>]
    /\ raised = [t \in Traversals |-> "none"]
    /\ drawsUsed = [t \in Traversals |-> <<>>]
    /\ startAt = [t \in Traversals |-> 0]
    /\ pullsSince = [t \in Traversals |-> 0]
    /\ stopsSeen = [t \in Traversals |-> 0]
    /\ len_result = NotAsked

\* One traversal of one shuffler, over a finite or an endless upstream.
Init ==
    /\ InitWith(SeqsUpTo(MaxLen),
                (-1..(MaxBufferSize + 1)) \X (-1..MaxBufferSize),
                BOOLEAN, 1, {[t \in Traversals |-> 1]})
    /\ source_len = Reported(Len(source_datapipe))

\* Two traversals over a finite upstream: of one shuffler, or of two
\* shufflers built alike (same upstream, same configuration, generators
\* seeded alike).
InitPair ==
    /\ InitWith(SeqsUpTo(PairLen),
                (0..(PairBufferSize + 1)) \X (0..PairBufferSize),
                {FALSE}, 2,
                {[t \in Traversals |-> 1], [t \in Traversals |-> t]})
    /\ source_len = Reported(Len(source_datapipe))

Next ==
    \E t \in Traversals :
        \/ Start(t)
        \/ ForNext(t)
        \/ AppendSample(t)
        \/ TopUp(t)
        \/ LoopPick(t)
        \/ Drain(t)
        \/ Resume(t)
        \/ Abandon(t)

Spec == Init /\ [][Next]_vars

SpecPair == InitPair /\ [][Next]_vars

\* The scenario of one traversal: five distinct samples, initial = 2,
\* buffer_size = 3.
InitScenario ==
    /\ InitWith({<<1, 2, 3, 4, 5>>}, {<<2, 3>>}, {FALSE}, 1,
                {[t \in Traversals |-> 1]})
    /\ errAt = 0
    /\ source_len = Reported(Len(source_datapipe))

SpecScenario == InitScenario /\ [][Next]_vars

\* One traversal over a finite upstream whose len() gives any count, its
\* own or another, or raises; the consumer may ask the shuffler's len() at
\* any time it is in control.
InitLen ==
    /\ InitWith(SeqsUpTo(PairLen),
                (0..(PairBufferSize + 1)) \X (0..PairBufferSize),
                {FALSE}, 1, {[t \in Traversals |-> 1]})
    /\ source_len \in {Reported(n) : n \in 0..(PairLen + 1)} \cup {NoLength}

NextLen == Next \/ LenCall

SpecLen == InitLen /\ [][NextLen]_vars

\* Fair scheduling: the running generator's code goes on executing, and a
\* consumer that has not dropped its generator goes on calling next().
Step ==
    \E t \in Traversals :
        \/ Start(t)
        \/ ForNext(t)
        \/ AppendSample(t)
        \/ TopUp(t)
        \/ LoopPick(t)
        \/ Drain(t)
        \/ Resume(t)

FairSpec == Spec /\ WF_vars(Step)

\* ------------------------------------------------------------- claims
Finite == ~endless /\ errAt = 0

Suspended(t) == pc[t] \in {"yield_loop", "yield_drain"}

\* C1: for a finite upstream without error and buffer_size >= 1, a traversal
\* that has run to its end has emitted exactly the multiset of the upstream
\* samples: as many samples, and every value as often as the upstream has it.
C1_MultisetPreserved ==
    \A t \in Traversals :
        (Finite /\ buffer_size >= 1 /\ pc[t] = "done") =>
            /\ Len(out[t]) = Len(source_datapipe)
            /\ SameBag(out[t], source_datapipe)

\* A complete traversal of three samples, two of them equal, that came out in
\* another order than they went in.
C1_Witness ==
    /\ pc[1] = "done"
    /\ buffer_size >= 1
    /\ source_datapipe = <<1, 2, 1>>
    /\ out[1] = <<2, 1, 1>>

\* C2: for buffer_size >= 1, whatever the upstream, the buffer never holds
\* more than buffer_size samples, at every position of __iter__; with the
\* loop variable not yet appended that makes at most buffer_size + 1 samples.
C2_BoundedBuffer ==
    \A t \in Traversals :
        buffer_size >= 1 =>
            /\ Len(buf[t]) <= buffer_size
            /\ Len(buf[t]) + (IF pc[t] = "append" THEN 1 ELSE 0)
                   <= buffer_size + 1

\* A full buffer between the top-up pull and the pick, on an endless upstream.
C2_Witness ==
    /\ endless
    /\ buffer_size = MaxBufferSize
    /\ pc[1] = "test"
    /\ Len(buf[1]) = buffer_size
    /\ Len(out[1]) >= 1

\* C3: for a finite upstream of N samples without error and buffer_size >= 1,
\* a traversal that is begun and pulled on reaches its end (unless its
\* consumer drops it), the end comes without error after exactly N emissions,
\* and for N = 0 nothing is emitted and no random number is drawn.
C3_Terminates ==
    /\ [](\A t \in Traversals :
            (Finite /\ buffer_size >= 1) =>
                /\ Len(out[t]) <= Len(source_datapipe)
                /\ pc[t] # "error"
                /\ pc[t] = "done" =>
                       (raised[t] = "none"
                        /\ Len(out[t]) = Len(source_datapipe))
                /\ Len(source_datapipe) = 0 =>
                       (out[t] = <<>> /\ drawsUsed[t] = <<>>
                        /\ rng[owner[t]] = <<>>))
    /\ (Finite /\ buffer_size >= 1) =>
           <>(pc[1] \in {"done", "abandoned"})

\* A traversal of the longest upstream at its end.
C3_Witness ==
    /\ Finite
    /\ buffer_size >= 1
    /\ pc[1] = "done"
    /\ Len(source_datapipe) = MaxLen
    /\ Len(out[1]) = MaxLen

\* C4: when the upstream has at least min(initial, buffer_size) samples, a
\* traversal that has emitted anything has pulled at least that many samples.
C4_StartupLatency ==
    \A t \in Traversals :
        ((endless \/ Len(source_datapipe) >= Min(initial, buffer_size))
         /\ Len(out[t]) >= 1) =>
            data[t] >= Min(initial, buffer_size)

\* The first emission, right after exactly min(initial, buffer_size) pulls.
C4_Witness ==
    /\ Min(initial, buffer_size) = MaxBufferSize
    /\ pc[1] = "yield_loop"
    /\ Len(out[1]) = 1
    /\ data[1] = Min(initial, buffer_size)

\* C5 as stated: for buffer_size >= 1 and an upstream with fewer samples than
\* `initial`, nothing is emitted inside the main loop.
C5_AsStated ==
    \A t \in Traversals :
        (~endless /\ buffer_size >= 1 /\ Len(source_datapipe) < initial) =>
            pc[t] # "yield_loop"

\* C5, amended: for buffer_size >= 1 and an upstream with fewer samples than
\* min(initial, buffer_size), nothing is emitted inside the main loop: every
\* emission comes after the main loop has met the exhaustion of the upstream,
\* in the drain.
C5_ShortUpstream ==
    \A t \in Traversals :
        (~endless /\ buffer_size >= 1
         /\ Len(source_datapipe) < Min(initial, buffer_size)) =>
            /\ pc[t] # "yield_loop"
            /\ Len(out[t]) >= 1 =>
                   (stopsSeen[t] >= 1
                    /\ pc[t] \in {"yield_drain", "drain", "done", "abandoned"})

\* Two samples, a fill level of three: both emitted, by the drain.
C5_Witness ==
    /\ Min(initial, buffer_size) = 3
    /\ Len(source_datapipe) = 2
    /\ errAt = 0
    /\ pc[1] = "done"
    /\ Len(out[1]) = 2

\* C6 as stated: for buffer_size >= 1, no output element, the first
\* included, costs more than two calls of next() on the upstream.
C6_AsStated ==
    \A t \in Traversals :
        (buffer_size >= 1 /\ Suspended(t)) => pullsSince[t] <= 2

\* C6, amended: for buffer_size >= 1, every output element but the first
\* costs zero, one or two calls of next() on the upstream; the first costs at
\* most max(min(initial, buffer_size), 1) + 1.
C6_PullsPerOutput ==
    \A t \in Traversals :
        (buffer_size >= 1 /\ Suspended(t)) =>
            /\ Len(out[t]) >= 2 => pullsSince[t] <= 2
            /\ Len(out[t]) = 1 =>
                   pullsSince[t] <= Max(Min(initial, buffer_size), 1) + 1

\* A second output that cost two pulls, the direct one and the top-up.
C6_Witness ==
    /\ buffer_size >= 1
    /\ pc[1] = "yield_loop"
    /\ Len(out[1]) = 2
    /\ pullsSince[1] = 2
    /\ data[1] = 4

\* C7: an error raised by a pull on the upstream, in the main loop or in the
\* top-up, ends the traversal with that same error: the pull that meets the
\* failing position ends in the error state, the traversal raises nothing
\* else, and from then on it pulls nothing and emits nothing, so the samples
\* in its buffer stay there.
C7_ErrorPropagates ==
    /\ [](\A t \in Traversals :
            /\ (pc[t] = "error") <=> (raised[t] # "none")
            /\ pc[t] = "error" =>
                   (raised[t] = "UpstreamError" /\ errAt = data[t] + 1))
    /\ [][\A t \in Traversals :
            /\ (/\ running = t
                /\ errAt = data[t] + 1
                /\ \/ pc[t] = "for"
                   \/ pc[t] = "topup" /\ Len(buf[t]) < buffer_size)
               => pc'[t] = "error"
            /\ pc[t] = "error" =>
                   /\ pc'[t] = "error"
                   /\ raised'[t] = raised[t]
                   /\ data'[t] = data[t]
                   /\ pullsSince'[t] = pullsSince[t]
                   /\ out'[t] = out[t]
                   /\ buf'[t] = buf[t]]_vars

\* The third pull, a main-loop pull, has failed: one sample was emitted and
\* one is left in the buffer.
C7_Witness ==
    /\ errAt = 3
    /\ pc[1] = "error"
    /\ raised[1] = "UpstreamError"
    /\ data[1] = 2
    /\ Len(out[1]) = 1
    /\ Len(buf[1]) = 1

SameInstance == owner[1] = owner[2]

\* C8: over the traversals of one shuffler the draws its generator has
\* produced are never taken back or replaced, and every emitted sample has
\* consumed exactly one of them: the generator has produced as many draws as
\* samples were emitted in all, the i-th emission of a traversal begun after
\* k draws uses draw k + i plus the emissions other traversals made in
\* between, and a second complete traversal of an N-sample upstream, begun
\* after a first complete one, uses draws N+1 .. 2N.
C8_RngPersists ==
    /\ [](SameInstance =>
            /\ Len(rng[owner[1]]) = Len(out[1]) + Len(out[2])
            /\ \A t \in Traversals :
                 /\ Len(drawsUsed[t]) = Len(out[t])
                 /\ \A i \in DOMAIN drawsUsed[t] :
                      drawsUsed[t][i] = startAt[t] + i + Cardinality(
                          {j \in DOMAIN drawsUsed[Other(t)] :
                              /\ drawsUsed[Other(t)][j] > startAt[t]
                              /\ drawsUsed[Other(t)][j] < drawsUsed[t][i]})
            /\ (/\ Finite
                /\ pc[1] = "done"
                /\ pc[2] = "done"
                /\ startAt[2] = Len(source_datapipe))
               => drawsUsed[2] = [i \in 1..Len(source_datapipe) |->
                                     Len(source_datapipe) + i])
    /\ [][\A s \in Shufflers : IsPrefix(rng[s], rng'[s])]_vars

\* Two complete traversals of a two-sample upstream, one after the other: the
\* second used draws 3 and 4.
C8_Witness ==
    /\ SameInstance
    /\ pc[1] = "done"
    /\ pc[2] = "done"
    /\ Len(source_datapipe) = 2
    /\ startAt[2] = 2
    /\ drawsUsed[2] = <<3, 4>>

\* C9: two traversals of one shuffler over one finite upstream, their steps
\* interleaved in any way and either of them possibly dropped midway: each
\* begins with an empty buffer, each one that reaches its end has an empty
\* buffer and has emitted exactly the upstream's multiset, and a step of one
\* leaves the other's position, buffer, cursor, loop variable, output and
\* error alone.
C9_BuffersPerTraversal ==
    /\ [](\A t \in Traversals :
            (SameInstance /\ Finite /\ pc[t] = "done") =>
                /\ buf[t] = <<>>
                /\ Len(out[t]) = Len(source_datapipe)
                /\ SameBag(out[t], source_datapipe))
    /\ [][SameInstance =>
            \A t \in Traversals :
              /\ (pc[t] = "new" /\ pc'[t] # "new") => buf'[t] = <<>>
              /\ pc'[t] # pc[t] =>
                     /\ pc'[Other(t)] = pc[Other(t)]
                     /\ buf'[Other(t)] = buf[Other(t)]
                     /\ data'[Other(t)] = data[Other(t)]
                     /\ sample'[Other(t)] = sample[Other(t)]
                     /\ out'[Other(t)] = out[Other(t)]
                     /\ raised'[Other(t)] = raised[Other(t)]]_vars

\* The first traversal dropped after one emission with a sample left in its
\* buffer, the second one complete.
C9_Witness ==
    /\ SameInstance
    /\ Finite
    /\ pc[1] = "abandoned"
    /\ Len(out[1]) = 1
    /\ Len(buf[1]) = 1
    /\ pc[2] = "done"
    /\ Len(out[2]) = 2

\* C10: two traversals, of two shufflers built alike, whose generators give
\* the same draws: what one has emitted is a prefix of what the other has
\* emitted, suspended after equally many emissions they are at the same
\* position with equal buffers and cursors, and ended both they have emitted
\* the same sequence and ended the same way.
C10_Deterministic ==
    ~SameInstance =>
        /\ \A i \in 1..Min(Len(out[1]), Len(out[2])) : out[1][i] = out[2][i]
        /\ (Suspended(1) /\ Suspended(2) /\ Len(out[1]) = Len(out[2])) =>
               (pc[1] = pc[2] /\ buf[1] = buf[2] /\ data[1] = data[2])
        /\ (pc[1] \in {"done", "error"} /\ pc[2] \in {"done", "error"}) =>
               (out[1] = out[2] /\ pc[1] = pc[2] /\ raised[1] = raised[2])

\* Both traversals complete, with the two samples swapped in both.
C10_Witness ==
    /\ ~SameInstance
    /\ source_datapipe = <<1, 2>>
    /\ pc[1] = "done"
    /\ pc[2] = "done"
    /\ out[1] = <<2, 1>>
    /\ out[2] = <<2, 1>>

\* C11 as stated: in the scenario (input 1..5, initial = 2, buffer_size = 3)
\* the buffer is topped up to three samples before the first pick, which is
\* made at occupancy 3 after three pulls.
C11_AsStated ==
    (pc[1] = "yield_loop" /\ Len(out[1]) = 1) =>
        (data[1] = 3 /\ Len(buf[1]) = 2)

\* C11, amended: in the scenario the buffer fills to <<1, 2>> (the direct
\* pull and the top-up) and the first pick is made at occupancy 2, after two
\* pulls; the second pick follows the pulls of 3 and 4 at occupancy 3, the
\* third the pull of 5 at occupancy 3, the drain emits the two samples left,
\* and the traversal ends having emitted each of 1..5 once.
C11_Scenario ==
    /\ out[1] = <<>> => (buf[1] \in {<<>>, <<1>>, <<1, 2>>} /\ data[1] <= 2)
    /\ Suspended(1) =>
           /\ Len(out[1]) + Len(buf[1]) = data[1]
           /\ data[1] = CASE Len(out[1]) = 1 -> 2
                          [] Len(out[1]) = 2 -> 4
                          [] OTHER -> 5
           /\ pc[1] = IF Len(out[1]) <= 3 THEN "yield_loop" ELSE "yield_drain"
    /\ pc[1] = "done" =>
           /\ buf[1] = <<>>
           /\ Len(out[1]) = 5
           /\ \A v \in 1..5 : Count(out[1], v) = 1

\* The scenario at its end, the samples out of their order.
C11_Witness ==
    /\ source_datapipe = <<1, 2, 3, 4, 5>>
    /\ initial = 2
    /\ buffer_size = 3
    /\ pc[1] = "done"
    /\ out[1] = <<2, 4, 1, 5, 3>>

\* C12: for buffer_size <= 0 (any initial) and a finite upstream without
\* error, a traversal that is begun and pulled on reaches its end (unless its
\* consumer drops it), never fails, never emits more than the upstream has,
\* and at its end has emitted every upstream sample exactly once.
C12_DegenerateBufferSize ==
    /\ [](\A t \in Traversals :
            (Finite /\ buffer_size <= 0) =>
                /\ pc[t] # "error"
                /\ raised[t] = "none"
                /\ Len(out[t]) <= Len(source_datapipe)
                /\ pc[t] = "done" =>
                       /\ Len(out[t]) = Len(source_datapipe)
                       /\ SameBag(out[t], source_datapipe))
    /\ (Finite /\ buffer_size <= 0) =>
           <>(pc[1] \in {"done", "abandoned"})

\* A complete traversal of the longest upstream with a negative buffer_size.
C12_Witness ==
    /\ Finite
    /\ buffer_size < 0
    /\ initial > 0
    /\ Len(source_datapipe) = MaxLen
    /\ pc[1] = "done"
    /\ Len(out[1]) = MaxLen

\* C13: a len() of the shuffler gives exactly what len() of the upstream
\* gives, its count or its error, whatever the traversal has pulled or
\* emitted when it is asked, and asking changes nothing of the shuffler or
\* its traversals.
C13_LengthReporting ==
    /\ [](len_result.kind # "none" => len_result = source_len)
    /\ [][len_result' # len_result =>
            UNCHANGED <<config, rng, running, pc, buf, data, sample, out,
                        raised, drawsUsed, startAt, pullsSince,
                        stopsSeen>>]_vars

\* The upstream reports three samples and yields two: the shuffler has
\* emitted both and reports three.
C13_Witness ==
    /\ Len(source_datapipe) = 2
    /\ source_len = Reported(3)
    /\ len_result = Reported(3)
    /\ pc[1] = "done"
    /\ Len(out[1]) = 2

\* C14: every pick is a swap-remove: on a buffer of n >= 1 samples with drawn
\* index k in 0..n-1 it emits the sample of slot k, leaves n - 1 samples,
\* has the former last sample in slot k when k < n - 1, leaves every other
\* slot of 0..n-2 as it was, and the buffer before is the buffer after plus
\* one occurrence of the emitted sample.
C14_SwapRemove ==
    [][\A t \in Traversals :
         Len(out'[t]) > Len(out[t]) =>
            LET b == buf[t]
                n == Len(b)
                d == rng'[owner[t]][Len(rng'[owner[t]])]
                k == d.k
                e == out'[t][Len(out'[t])]
            IN /\ n >= 1
               /\ d.n = n
               /\ k \in 0..(n - 1)
               /\ out'[t] = Append(out[t], b[k + 1])
               /\ Len(buf'[t]) = n - 1
               /\ k < n - 1 => buf'[t][k + 1] = b[n]
               /\ \A i \in 1..(n - 1) : i # k + 1 => buf'[t][i] = b[i]
               /\ \A v \in Values :
                    Count(b, v) = Count(buf'[t], v) + (IF v = e THEN 1 ELSE 0)
      ]_vars

\* A pick of slot 0 out of three: the emitted 1 gave its slot to the last
\* sample, a 2, and the middle slot kept its 1.
C14_Witness ==
    /\ pc[1] = "yield_loop"
    /\ Len(rng[1]) >= 1
    /\ rng[1][Len(rng[1])] = [n |-> 3, k |-> 0]
    /\ out[1][Len(out[1])] = 1
    /\ buf[1] = <<2, 1>>

\* C15 as stated: once the upstream has signalled exhaustion to a traversal,
\* that traversal makes no further pull; a further pull would be answered by
\* the signal again, so no traversal would receive it twice.
C15_AsStated == \A t \in Traversals : stopsSeen[t] <= 1

\* C15, amended: the main loop ends when its own pull meets the exhaustion
\* signal. A signal met by the top-up pull, which is made only while the
\* buffer is below buffer_size, is absorbed and does not end the loop: the
\* main loop makes one further pull, which meets the signal again. So a
\* traversal receives the signal at most twice, the second time in the main
\* loop's pull; it pulls no sample after the first; and once the main loop
\* has met the signal it makes no pull at all and only picks from the buffer.
C15_PullsAfterExhaustion ==
    /\ [](\A t \in Traversals :
            /\ stopsSeen[t] <= 2
            /\ stopsSeen[t] = 2 =>
                   pc[t] \in {"drain", "yield_drain", "done", "abandoned"}
            /\ (stopsSeen[t] >= 1 /\ pc[t] \in {"test", "for", "yield_loop"})
                   => Len(buf[t]) < buffer_size)
    /\ [][\A t \in Traversals :
            /\ stopsSeen[t] >= 1 => data'[t] = data[t]
            /\ pc[t] \in {"drain", "yield_drain", "done"} =>
                   /\ data'[t] = data[t]
                   /\ stopsSeen'[t] = stopsSeen[t]
                   /\ pullsSince'[t] <= pullsSince[t]
                   /\ pc'[t] \in {"drain", "yield_drain", "done",
                                  "abandoned"}]_vars

\* The top-up pull met the end of the upstream, the main loop's pull met it
\* again, and the drain has emitted a sample.
C15_Witness ==
    /\ stopsSeen[1] = 2
    /\ pc[1] = "yield_drain"
    /\ pullsSince[1] = 1
    /\ Len(out[1]) = 3
    /\ buf[1] = <<>>

\* the largest number of upstream pulls C16 allows before the first output
StartupPulls == Max(Min(initial, buffer_size), 1) + 1

\* C16: for buffer_size >= 1 and an upstream, finite or endless, that
\* supplies more than max(min(initial, buffer_size), 1) + 1 samples, a
\* traversal that has emitted nothing has made at most that many pulls, has
\* not been told of exhaustion and has not finished; when the first output
\* is handed over, at most that many pulls have been made and the upstream
\* has not signalled exhaustion.
C16_LazyEmission ==
    (/\ buffer_size >= 1
     /\ errAt = 0 \/ errAt > StartupPulls
     /\ endless \/ Len(source_datapipe) > StartupPulls)
    => \A t \in Traversals :
         /\ out[t] = <<>> =>
               /\ data[t] + stopsSeen[t] <= StartupPulls
               /\ data[t] = StartupPulls => pc[t] \in {"append", "test"}
               /\ stopsSeen[t] = 0
               /\ raised[t] = "none"
               /\ pc[t] \in {"new", "for", "append", "topup", "test",
                             "abandoned"}
         /\ Len(out[t]) = 1 /\ Suspended(t) =>
               /\ pc[t] = "yield_loop"
               /\ data[t] <= StartupPulls
               /\ stopsSeen[t] = 0

\* The first output of an endless upstream is handed over after exactly
\* max(min(initial, buffer_size), 1) + 1 = 2 pulls: the main loop's and the
\* top-up's.
C16_Witness ==
    /\ endless
    /\ initial = 1
    /\ buffer_size = 2
    /\ pc[1] = "yield_loop"
    /\ Len(out[1]) = 1
    /\ data[1] = StartupPulls
    /\ stopsSeen[1] = 0

\* C17: for buffer_size >= 1, at every main-loop emission made while the
\* upstream has kept supplying samples, the occupancy left is at most
\* buffer_size - 1 and equals the samples pulled minus the samples emitted;
\* from the second emission on, either two pulls were made since the previous
\* emission and the occupancy left is one more than it was, or one pull was
\* made and the occupancy left was, and is, buffer_size - 1. The occupancy
\* left at the previous emission is the one now, less the pulls since, plus
\* the one sample picked.
C17_GrowthToSteadyState ==
    \A t \in Traversals :
      (buffer_size >= 1 /\ pc[t] = "yield_loop" /\ stopsSeen[t] = 0) =>
         /\ Len(buf[t]) <= buffer_size - 1
         /\ data[t] = Len(out[t]) + Len(buf[t])
         /\ Len(out[t]) >= 2 =>
               LET before == Len(buf[t]) - pullsSince[t] + 1
               IN /\ pullsSince[t] \in {1, 2}
                  /\ before <= Len(buf[t])
                  /\ pullsSince[t] = 2 =>
                        (before < buffer_size - 1 /\ Len(buf[t]) = before + 1)
                  /\ pullsSince[t] = 1 =>
                        (before = buffer_size - 1
                           /\ Len(buf[t]) = buffer_size - 1)

\* Steady state of an endless upstream with buffer_size = 3: an emission
\* after a single pull, leaving two samples in the buffer.
C17_Witness ==
    /\ endless
    /\ buffer_size = 3
    /\ pc[1] = "yield_loop"
    /\ stopsSeen[1] = 0
    /\ Len(out[1]) = 3
    /\ pullsSince[1] = 1
    /\ Len(buf[1]) = 2

\* C18: for every initial and every buffer_size, the non-positive ones
\* included, no pick is applied to an empty buffer: no traversal raises the
\* error of an empty index range, the pick test of the main loop is reached
\* only with a sample in the buffer, and every draw made was over a range
\* 0..n-1 with n >= 1.
C18_PickNeverEmpty ==
    /\ \A t \in Traversals :
          /\ raised[t] # "ValueError"
          /\ pc[t] = "test" => Len(buf[t]) >= 1
          /\ Len(drawsUsed[t]) = Len(out[t])
    /\ \A s \in Shufflers : \A i \in 1..Len(rng[s]) :
          rng[s][i].n >= 1 /\ rng[s][i].k \in 0..(rng[s][i].n - 1)

\* With initial and buffer_size both non-positive, the drain loop has picked
\* the last sample and found the buffer empty.
C18_Witness ==
    /\ initial <= 0
    /\ buffer_size <= 0
    /\ pc[1] = "done"
    /\ Len(out[1]) = 3
    /\ rng[1][Len(rng[1])].n = 1
    /\ buf[1] = <<>>

====
